---- MODULE Spec2Model ----
(***************************************************************************)
(* Model of musicapp1/app.py: the /recognize handler, which posts an       *)
(* uploaded audio file to the Audd.io fingerprinting service and, on a     *)
(* match, asks Gemini for lyrics and an artist biography.                  *)
(*                                                                         *)
(* A Python str is a sequence of tokens (single characters where the code  *)
(* looks at characters, whole phrases for literals it only concatenates),  *)
(* so an f-string is a concatenation.  The Chinese literals of the source  *)
(* are written in English.  A JSON value is a record tagged by t.          *)
(***************************************************************************)
EXTENDS Integers, Sequences, FiniteSets, TLC

VARIABLES pc, hasFile, gemini_client, auddOutcome, geminiOutcome, r, title,
          artist, gemini_data, response, responses, auddCalls, geminiCalls

vars == <<pc, hasFile, gemini_client, auddOutcome, geminiOutcome, r, title,
          artist, gemini_data, response, responses, auddCalls, geminiCalls>>

(* Longest run of blanks put around a text-generation reply. *)
MaxPad == 1

----------------------------------------------------------------------------
(* JSON / Python values *)

JNull == [t |-> "null"]
JStr(s) == [t |-> "str", s |-> s]
JInt(n) == [t |-> "int", n |-> n]
JObj(o) == [t |-> "obj", o |-> o]
JArr(a) == [t |-> "arr", a |-> a]
EmptyDict == JObj(<<>>)

IsObj(v) == v.t = "obj"

(* truthiness mistaken for 'is not None' *)
Truthy_NotNone(v) == v.t # "null"

(* Python truthiness, as used by 'if not x' and 'if x' *)
Truthy(v) ==
  CASE v.t = "null" -> FALSE
    [] v.t = "str" -> Len(v.s) > 0
    [] v.t = "int" -> v.n # 0
    [] v.t = "obj" -> DOMAIN v.o # {}
    [] v.t = "arr" -> Len(v.a) > 0

(* the name Python prints for the type of a value *)
TypeName(v) ==
  CASE v.t = "null" -> "NoneType"
    [] v.t = "str" -> "str"
    [] v.t = "int" -> "int"
    [] v.t = "obj" -> "dict"
    [] v.t = "arr" -> "list"

(* results of an evaluation that may raise *)
Ok(v) == [raised |-> FALSE, val |-> v]
Raise(cls, msg) == [raised |-> TRUE, cls |-> cls, msg |-> msg]

(* v.get(k, default): defined on dicts only *)
Get(v, k, default) ==
  IF IsObj(v)
    THEN Ok(IF k \in DOMAIN v.o THEN v.o[k] ELSE default)
    ELSE Raise("AttributeError",
               <<"'", TypeName(v), "' object has no attribute 'get'">>)

(* v[k] *)
Subscript(v, k) ==
  IF IsObj(v)
    THEN IF k \in DOMAIN v.o THEN Ok(v.o[k])
                             ELSE Raise("KeyError", <<"'">> \o k \o <<"'">>)
    ELSE Raise("TypeError", <<"'", TypeName(v), "' object is not subscriptable">>)

RECURSIVE Digits(_)
(* str(n) for n >= 0 *)
Digits(n) ==
  LET d == <<"0", "1", "2", "3", "4", "5", "6", "7", "8", "9">>
  IN IF n < 10 THEN <<d[n + 1]>> ELSE Digits(n \div 10) \o <<d[(n % 10) + 1]>>

(* how an f-string renders a value *)
Format(v) ==
  CASE v.t = "null" -> <<"None">>
    [] v.t = "str" -> v.s
    [] v.t = "int" -> Digits(v.n)
    [] v.t = "obj" -> <<"{...}">>
    [] v.t = "arr" -> <<"[...]">>

(* needle occurs in hay as a contiguous run *)
Contains(hay, needle) ==
  \E i \in 0..(Len(hay) - Len(needle)) :
    \A j \in 1..Len(needle) : hay[i + j] = needle[j]

----------------------------------------------------------------------------
(* str.strip / lstrip / rstrip and json.loads *)

NL == "\n"
QUOTE == "\""
Whitespace == {" ", NL}

RECURSIVE lstrip(_, _)
lstrip(s, chars) ==
  IF Len(s) > 0 /\ Head(s) \in chars THEN lstrip(Tail(s), chars) ELSE s

RECURSIVE rstrip(_, _)
rstrip(s, chars) ==
  IF Len(s) > 0 /\ s[Len(s)] \in chars
    THEN rstrip(SubSeq(s, 1, Len(s) - 1), chars) ELSE s

strip(s) == rstrip(lstrip(s, Whitespace), Whitespace)

(* the set of characters of a str literal, which is what lstrip/rstrip take *)
CharsOf(s) == {s[i] : i \in 1..Len(s)}

(* the backtick character *)
BT == "<backtick>"
FENCE == <<BT, BT, BT>>
FENCE_JSON == <<BT, BT, BT, "j", "s", "o", "n">>

DigitChars == {"0", "1", "2", "3", "4", "5", "6", "7", "8", "9"}

PFail == [ok |-> FALSE]
POk(v, next) == [ok |-> TRUE, val |-> v, next |-> next]

RECURSIVE SkipWs(_, _)
SkipWs(s, i) ==
  IF i <= Len(s) /\ s[i] \in Whitespace THEN SkipWs(s, i + 1) ELSE i

RECURSIVE StringEnd(_, _)
(* index of the quote closing a string whose content starts at i, 0 if none *)
StringEnd(s, i) ==
  IF i > Len(s) \/ s[i] = NL THEN 0
  ELSE IF s[i] = QUOTE THEN i
  ELSE StringEnd(s, i + 1)

ParseString(s, i) ==
  IF i <= Len(s) /\ s[i] = QUOTE
    THEN LET e == StringEnd(s, i + 1)
         IN IF e = 0 THEN PFail
            ELSE POk(JStr(SubSeq(s, i + 1, e - 1)), e + 1)
    ELSE PFail

RECURSIVE NumberEnd(_, _)
NumberEnd(s, i) ==
  IF i <= Len(s) /\ s[i] \in DigitChars THEN NumberEnd(s, i + 1) ELSE i

RECURSIVE NumberValue(_, _, _)
NumberValue(s, i, e) ==
  LET d == CHOOSE n \in 0..9 : Digits(n) = <<s[e - 1]>>
  IN IF e - 1 = i THEN d ELSE 10 * NumberValue(s, i, e - 1) + d

RECURSIVE ParseValue(_, _)
RECURSIVE ParseMembers(_, _, _)
RECURSIVE ParseElements(_, _, _)

(* members of an object after "{" or ",": i is at the first key *)
ParseMembers(s, i, acc) ==
  LET k == ParseString(s, i)
  IN IF ~k.ok THEN PFail
     ELSE LET c == SkipWs(s, k.next)
          IN IF c > Len(s) \/ s[c] # ":" THEN PFail
             ELSE LET v == ParseValue(s, SkipWs(s, c + 1))
                  IN IF ~v.ok THEN PFail
                     ELSE LET e == SkipWs(s, v.next)
                              acc2 == (k.val.s :> v.val) @@ acc
                          IN IF e > Len(s) THEN PFail
                             ELSE IF s[e] = "}" THEN POk(JObj(acc2), e + 1)
                             ELSE IF s[e] = ","
                               THEN ParseMembers(s, SkipWs(s, e + 1), acc2)
                             ELSE PFail

(* elements of an array after "[" or ",": i is at the first element *)
ParseElements(s, i, acc) ==
  LET v == ParseValue(s, i)
  IN IF ~v.ok THEN PFail
     ELSE LET e == SkipWs(s, v.next)
              acc2 == Append(acc, v.val)
          IN IF e > Len(s) THEN PFail
             ELSE IF s[e] = "]" THEN POk(JArr(acc2), e + 1)
             ELSE IF s[e] = ","
               THEN ParseElements(s, SkipWs(s, e + 1), acc2)
             ELSE PFail

ParseValue(s, i) ==
  IF i > Len(s) THEN PFail
  ELSE IF s[i] = "{"
    THEN LET j == SkipWs(s, i + 1)
         IN IF j <= Len(s) /\ s[j] = "}" THEN POk(EmptyDict, j + 1)
            ELSE ParseMembers(s, j, <<>>)
  ELSE IF s[i] = "["
    THEN LET j == SkipWs(s, i + 1)
         IN IF j <= Len(s) /\ s[j] = "]" THEN POk(JArr(<<>>), j + 1)
            ELSE ParseElements(s, j, <<>>)
  ELSE IF s[i] = QUOTE THEN ParseString(s, i)
  ELSE IF s[i] \in DigitChars
    THEN LET e == NumberEnd(s, i)
         IN IF s[i] = "0" /\ e > i + 1 THEN PFail
            ELSE POk(JInt(NumberValue(s, i, e)), e)
  ELSE IF i + 3 <= Len(s) /\ SubSeq(s, i, i + 3) = <<"n", "u", "l", "l">>
    THEN POk(JNull, i + 4)
  ELSE PFail

(* json.loads(s): the value, or JSONDecodeError *)
JsonLoads(s) ==
  LET v == ParseValue(s, SkipWs(s, 1))
  IN IF v.ok /\ SkipWs(s, v.next) = Len(s) + 1
       THEN Ok(v.val)
       ELSE Raise("JSONDecodeError", <<"Expecting value">>)

----------------------------------------------------------------------------
(* dict keys and str literals of app.py *)

STATUS == <<"status">>
MESSAGE == <<"message">>
ERROR == <<"error">>
ERROR_CODE == <<"error_code">>
ERROR_MESSAGE == <<"error_message">>
RESULT == <<"result">>
TITLE == <<"title">>
ARTIST == <<"artist">>
ALBUM == <<"album">>
LINKS == <<"links">>
LYRICS == <<"l", "y", "r", "i", "c", "s">>
ARTIST_INFO == <<"a", "r", "t", "i", "s", "t", "_", "i", "n", "f", "o">>
SPOTIFY == <<"spotify">>
YOUTUBE == <<"youtube">>
APPLE_MUSIC == <<"apple_music">>
DEEZER == <<"deezer">>
EXTERNAL_URLS == <<"external_urls">>
URL == <<"url">>
LINK == <<"link">>

MSG_NO_FILE == <<"Audio file not found.">>
MSG_NO_MATCH == <<"Not recognised: connected to Audd.io, but no matching music was found in the database.">>
MSG_UNKNOWN_AUDD_ERROR == <<"Audd.io returned an unknown error message.">>
MSG_NOT_STARTED == <<"AI service not started.">>
MSG_API_FAILED == <<"Gemini API call failed.">>
MSG_BAD_FORMAT == <<"AI returned a malformed reply.">>
MSG_UNKNOWN == <<"Unknown error.">>
MSG_NO_LYRICS == <<"Could not get the lyrics.">>
MSG_NO_ARTIST_INFO == <<"Could not get the artist biography.">>

Response(http, body) == [http |-> http, body |-> body]
NoResponse == Response(0, <<>>)

EnrichmentDict(lyrics, artist_info) ==
  JObj((LYRICS :> JStr(lyrics)) @@ (ARTIST_INFO :> JStr(artist_info)))

----------------------------------------------------------------------------
(* get_song_info_from_gemini *)

(* the opening fence is left in place *)
CleanText_NoLstrip(text) == rstrip(strip(text), CharsOf(FENCE))

(* cleaned_text = response.text.strip().lstrip(FENCE_JSON).rstrip(FENCE) *)
CleanText(text) ==
  rstrip(lstrip(strip(text), CharsOf(FENCE_JSON)), CharsOf(FENCE))

(* The try body, given what generate_content did.  jsonBound tells whether *)
(* the function-local 'import json' had run when the exception was raised. *)
GeminiTryBody(outcome) ==
  IF outcome.kind # "text"
    THEN Raise(outcome.kind, outcome.msg) @@ [jsonBound |-> FALSE]
  ELSE IF outcome.text.t # "str"
    THEN Raise("AttributeError",
               <<"'", TypeName(outcome.text), "' object has no attribute 'strip'">>)
         @@ [jsonBound |-> TRUE]
  ELSE JsonLoads(CleanText(outcome.text.s)) @@ [jsonBound |-> TRUE]

(* The except clauses, tried in order; naming json.JSONDecodeError reads   *)
(* the local json, which is unbound until the import statement has run.    *)
GeminiExcept(e) ==
  IF e.cls = "APIError"
    THEN Ok(EnrichmentDict(MSG_API_FAILED,
                           MSG_API_FAILED \o <<"Error: ">> \o e.msg))
  ELSE IF ~e.jsonBound
    THEN Raise("UnboundLocalError",
               <<"cannot access local variable 'json' where it is not associated with a value">>)
  ELSE IF e.cls = "JSONDecodeError"
    THEN Ok(EnrichmentDict(MSG_BAD_FORMAT, MSG_BAD_FORMAT))
  ELSE Ok(EnrichmentDict(MSG_UNKNOWN, MSG_UNKNOWN))

(* what get_song_info_from_gemini returns or raises once the call is over *)
GeminiAfterCall(outcome) ==
  LET b == GeminiTryBody(outcome)
  IN IF b.raised THEN GeminiExcept(b) ELSE Ok(b.val)

(* the early return forgets the artist_info key *)
GeminiNoClient_LyricsOnly == Ok(JObj(LYRICS :> JStr(MSG_NOT_STARTED)))

(* the early return when the client was never constructed *)
GeminiNoClient == Ok(EnrichmentDict(MSG_NOT_STARTED, MSG_NOT_STARTED))

----------------------------------------------------------------------------
(* recognize_endpoint *)

MissingFileResponse ==
  Response(400, (STATUS :> JStr(<<"error">>)) @@ (MESSAGE :> JStr(MSG_NO_FILE)))

FailResponse(msg) ==
  Response(200, (STATUS :> JStr(<<"fail">>)) @@ (MESSAGE :> JStr(msg)))

ErrorResponse(msg) ==
  Response(500, (STATUS :> JStr(<<"error">>)) @@ (MESSAGE :> JStr(msg)))

(* the HTTPError clause is missing: every exception is reported generically *)
TopLevelExcept_Generic(e) == ErrorResponse(<<"Unknown backend error: ">> \o e.msg)

(* the catch-all clause is missing: other exceptions leave the handler *)
TopLevelExcept_NoCatchAll(e) ==
  IF e.cls = "HTTPError"
    THEN ErrorResponse(<<"HTTP connection error: ">> \o Digits(e.status_code))
    ELSE NoResponse

(* the two except clauses of recognize_endpoint *)
TopLevelExcept(e) ==
  IF e.cls = "HTTPError"
    THEN ErrorResponse(<<"HTTP connection error: ">> \o Digits(e.status_code))
    ELSE ErrorResponse(<<"Unknown backend error: ">> \o e.msg)

(* the message is built without the upstream error code *)
ServiceErrorBranch_NoCode(result) ==
  LET error_info == Get(result, ERROR, EmptyDict).val
      error_message == Get(error_info, ERROR_MESSAGE, JStr(MSG_UNKNOWN_AUDD_ERROR))
  IN IF error_message.raised THEN error_message
     ELSE Ok(FailResponse(<<"Service error: ">> \o Format(error_message.val)))

(* the branch taken when the reply says status == "error" *)
ServiceErrorBranch(result) ==
  LET error_info == Get(result, ERROR, EmptyDict).val
      error_message == Get(error_info, ERROR_MESSAGE, JStr(MSG_UNKNOWN_AUDD_ERROR))
      error_code == Get(error_info, ERROR_CODE, JStr(<<"N/A">>))
  IN IF error_message.raised THEN error_message
     ELSE Ok(FailResponse(<<"Service error (">> \o Format(error_code.val)
                          \o <<"): ">> \o Format(error_message.val)))

(* From requests.post to the call of get_song_info_from_gemini: either the *)
(* handler returns (kind "return"), raises (kind "raise"), or has a match. *)
AfterAudd(outcome) ==
  IF outcome.kind = "HTTPError"
    THEN [kind |-> "raise",
          exc |-> Raise("HTTPError", <<"Server Error">>)
                  @@ [status_code |-> outcome.status_code]]
  ELSE IF outcome.kind # "json"
    THEN [kind |-> "raise", exc |-> Raise(outcome.kind, outcome.msg)]
  ELSE
    LET result == outcome.body
        st == Get(result, STATUS, JNull)
    IN IF st.raised THEN [kind |-> "raise", exc |-> st]
       ELSE IF st.val = JStr(<<"error">>)
         THEN LET b == ServiceErrorBranch(result)
              IN IF b.raised THEN [kind |-> "raise", exc |-> b]
                 ELSE [kind |-> "return", resp |-> b.val]
       ELSE IF ~Truthy(Get(result, RESULT, JNull).val)
         THEN [kind |-> "return", resp |-> FailResponse(MSG_NO_MATCH)]
       ELSE
         LET rr == Subscript(result, RESULT).val
             t == Get(rr, TITLE, JNull)
         IN IF t.raised THEN [kind |-> "raise", exc |-> t]
            ELSE [kind |-> "match", r |-> rr, title |-> t.val,
                  artist |-> Get(rr, ARTIST, JNull).val]

(* Subscripting along a path of keys: v[p1][p2]... *)
RECURSIVE Path(_, _)
Path(v, p) ==
  IF p = <<>> THEN Ok(v)
  ELSE LET x == Subscript(v, Head(p))
       IN IF x.raised THEN x ELSE Path(x.val, Tail(p))

(* one 'if r.get(field): links[name] = r[field]...' statement *)
LinkStep(links, rr, field, path, name) ==
  IF links.raised THEN links
  ELSE IF ~Truthy(Get(rr, field, JNull).val) THEN links
  ELSE LET u == Path(rr, <<field>> \o path)
       IN IF u.raised THEN u ELSE Ok((name :> u.val) @@ links.val)

(* the four statements chained with elif: only the first platform found *)
BuildLinks_Chained(rr) ==
  LET l0 == Ok(<<>>)
  IN IF Truthy(Get(rr, SPOTIFY, JNull).val)
       THEN LinkStep(l0, rr, SPOTIFY, <<EXTERNAL_URLS, SPOTIFY>>, <<"Spotify">>)
     ELSE IF Truthy(Get(rr, YOUTUBE, JNull).val)
       THEN LinkStep(l0, rr, YOUTUBE, <<URL>>, <<"YouTube Music">>)
     ELSE IF Truthy(Get(rr, APPLE_MUSIC, JNull).val)
       THEN LinkStep(l0, rr, APPLE_MUSIC, <<URL>>, <<"Apple Music">>)
     ELSE LinkStep(l0, rr, DEEZER, <<LINK>>, <<"Deezer">>)

BuildLinks(rr) ==
  LET l0 == Ok(<<>>)
      l1 == LinkStep(l0, rr, SPOTIFY, <<EXTERNAL_URLS, SPOTIFY>>, <<"Spotify">>)
      l2 == LinkStep(l1, rr, YOUTUBE, <<URL>>, <<"YouTube Music">>)
      l3 == LinkStep(l2, rr, APPLE_MUSIC, <<URL>>, <<"Apple Music">>)
      l4 == LinkStep(l3, rr, DEEZER, <<LINK>>, <<"Deezer">>)
  IN l4

(* From the return of get_song_info_from_gemini to the final jsonify *)
Assemble(rr, t, a, gd) ==
  IF gd.raised THEN gd
  ELSE
    LET links == BuildLinks(rr)
        lyrics == Get(gd.val, LYRICS, JStr(MSG_NO_LYRICS))
        artist_info == Get(gd.val, ARTIST_INFO, JStr(MSG_NO_ARTIST_INFO))
    IN IF links.raised THEN links
       ELSE IF lyrics.raised THEN lyrics
       ELSE Ok(Response(200,
                 (STATUS :> JStr(<<"success">>)) @@ (TITLE :> t)
                 @@ (ARTIST :> a) @@ (ALBUM :> Get(rr, ALBUM, JNull).val)
                 @@ (LINKS :> JObj(links.val)) @@ (LYRICS :> lyrics.val)
                 @@ (ARTIST_INFO :> artist_info.val)))

Finish(x) == IF x.raised THEN TopLevelExcept(x) ELSE x.val

(* get_song_info_from_gemini(title, artist): client tells whether the      *)
(* module-level gemini_client is set, outcome what generate_content does.  *)
get_song_info_from_gemini(client, outcome) ==
  IF ~client THEN GeminiNoClient ELSE GeminiAfterCall(outcome)

----------------------------------------------------------------------------
(* What the two services can answer *)

ABSENT == [t |-> "absent"]
Opt(k, v) == IF v = ABSENT THEN <<>> ELSE (k :> v)

HttpErrorCodes == {404, 503}

SpotifyRecord ==
  JObj(EXTERNAL_URLS :> JObj(SPOTIFY :> JStr(<<"https://open.spotify.com/track/1">>)))
YoutubeRecord == JObj(URL :> JStr(<<"https://music.youtube.com/watch?v=2">>))
AppleMusicRecord == JObj(URL :> JStr(<<"https://music.apple.com/song/3">>))
DeezerRecord == JObj(LINK :> JStr(<<"https://www.deezer.com/track/4">>))
(* a non-empty platform record without the keys the handler reads *)
MalformedRecord == JObj(<<"id">> :> JStr(<<"1">>))

PlatformValues(rec) == {ABSENT, JNull, EmptyDict, rec, MalformedRecord}

MetaValues ==
  { <<>>,
    (TITLE :> JStr(<<"Song">>)) @@ (ARTIST :> JStr(<<"Singer">>))
      @@ (ALBUM :> JStr(<<"Album">>)) }

(* result records; the one without any field is the empty object *)
ResultRecords ==
  { JObj(m @@ Opt(SPOTIFY, sp) @@ Opt(YOUTUBE, yt) @@ Opt(APPLE_MUSIC, am)
           @@ Opt(DEEZER, dz)) :
      m \in MetaValues, sp \in PlatformValues(SpotifyRecord),
      yt \in PlatformValues(YoutubeRecord),
      am \in PlatformValues(AppleMusicRecord),
      dz \in PlatformValues(DeezerRecord) }

FullRecord ==
  JObj((TITLE :> JStr(<<"Song">>)) @@ (ARTIST :> JStr(<<"Singer">>))
       @@ (ALBUM :> JStr(<<"Album">>)) @@ (SPOTIFY :> SpotifyRecord)
       @@ (YOUTUBE :> YoutubeRecord) @@ (APPLE_MUSIC :> AppleMusicRecord)
       @@ (DEEZER :> DeezerRecord))

ResultValues == {ABSENT, JNull, JStr(<<"x">>)} \cup ResultRecords

ErrorValues ==
  {ABSENT, JNull, JStr(<<"limit reached">>)}
  \cup { JObj(Opt(ERROR_CODE, c) @@ Opt(ERROR_MESSAGE, m)) :
           c \in {ABSENT, JInt(900)},
           m \in {ABSENT, JStr(<<"Recognition failed">>)} }

AuddBodies ==
  {JNull, JArr(<<>>)}
  \cup { JObj((STATUS :> JStr(<<"error">>)) @@ Opt(ERROR, e) @@ Opt(RESULT, res)) :
           e \in ErrorValues, res \in {ABSENT, JNull, EmptyDict, FullRecord} }
  \cup { JObj(Opt(STATUS, st) @@ Opt(RESULT, res)) :
           st \in {ABSENT, JStr(<<"success">>)}, res \in ResultValues }

AuddOutcomes ==
  { [kind |-> "ConnectionError", msg |-> <<"Connection refused">>],
    [kind |-> "JSONDecodeError", msg |-> <<"Expecting value">>] }
  \cup { [kind |-> "HTTPError", status_code |-> c] : c \in HttpErrorCodes }
  \cup { [kind |-> "json", body |-> b] : b \in AuddBodies }

(* texts of the text-generation reply *)
Q(s) == <<QUOTE>> \o s \o <<QUOTE>>

ObjText(l, a) ==
  <<"{">> \o Q(LYRICS) \o <<":">> \o Q(l) \o <<",">> \o Q(ARTIST_INFO)
  \o <<":">> \o Q(a) \o <<"}">>

(* (lyrics, artist_info) pairs; the second is made of fence characters *)
EnrichmentPairs ==
  { <<(<<"L">>), (<<"A">>)>>,
    <<(<<BT, "j", "s", "o", "n">>), (<<"n", "o", BT>>)>> }

FullObjectTexts == { ObjText(p[1], p[2]) : p \in EnrichmentPairs }

PartialObjectTexts ==
  { <<"{", "}">>, <<"{">> \o Q(LYRICS) \o <<":">> \o Q(<<"L">>) \o <<"}">> }

NonObjectTexts ==
  { <<"[", "]">>, Q(<<"j", "s", "o", "n">>), <<"7">>, <<"n", "u", "l", "l">> }

UnparsableTexts ==
  { <<"o", "o", "p", "s">>, <<"{">> \o Q(LYRICS) \o <<":">> }

JsonTexts ==
  FullObjectTexts \cup PartialObjectTexts \cup NonObjectTexts \cup UnparsableTexts

RECURSIVE Blanks(_)
Blanks(n) == IF n = 0 THEN <<>> ELSE <<" ">> \o Blanks(n - 1)

(* a text bare, or between an opening and a closing fence *)
Wrappings(body) ==
  { Blanks(n) \o body \o Blanks(n) : n \in 0..MaxPad }
  \cup { Blanks(n) \o open \o inner \o body \o inner \o FENCE \o Blanks(n) :
           n \in 0..MaxPad, open \in {FENCE, FENCE_JSON},
           inner \in {<<>>, <<NL>>} }

GeminiTexts == UNION { Wrappings(b) : b \in JsonTexts }

GeminiOutcomes ==
  { [kind |-> "APIError", msg |-> <<"429 quota exceeded">>],
    [kind |-> "ConnectionError", msg |-> <<"Connection refused">>],
    [kind |-> "text", text |-> JNull] }
  \cup { [kind |-> "text", text |-> JStr(x)] : x \in GeminiTexts }

NoOutcome == [kind |-> "none"]
(* gemini_data before it is assigned *)
NoData == Ok(JNull)

----------------------------------------------------------------------------
(* One request *)

Init ==
  /\ pc = "start"
  /\ hasFile \in BOOLEAN
  /\ gemini_client \in BOOLEAN
  /\ auddOutcome = NoOutcome
  /\ geminiOutcome = NoOutcome
  /\ r = JNull
  /\ title = JNull
  /\ artist = JNull
  /\ gemini_data = NoData
  /\ response = NoResponse
  /\ responses = 0
  /\ auddCalls = 0
  /\ geminiCalls = 0

Return(resp) ==
  /\ response' = resp
  /\ responses' = responses + 1
  /\ pc' = "done"

(* the check of request.files is missing *)
RecognizeCheckFile_NoCheck ==
  /\ pc = "start"
  /\ pc' = "post"
  /\ UNCHANGED <<hasFile, gemini_client, auddOutcome, geminiOutcome, r, title,
                 artist, gemini_data, response, responses, auddCalls,
                 geminiCalls>>

(* if 'audio_file' not in request.files *)
RecognizeCheckFile ==
  /\ pc = "start"
  /\ IF ~hasFile
       THEN Return(MissingFileResponse)
       ELSE pc' = "post" /\ UNCHANGED <<response, responses>>
  /\ UNCHANGED <<hasFile, gemini_client, auddOutcome, geminiOutcome, r, title,
                 artist, gemini_data, auddCalls, geminiCalls>>

(* requests.post and everything up to the generate_content call *)
RecognizePostAudd ==
  /\ pc = "post"
  /\ \E o \in AuddOutcomes :
       LET a == AfterAudd(o)
       IN /\ auddOutcome' = o
          /\ auddCalls' = auddCalls + 1
          /\ CASE a.kind = "raise" ->
                    /\ Return(TopLevelExcept(a.exc))
                    /\ UNCHANGED <<r, title, artist, gemini_data>>
               [] a.kind = "return" ->
                    /\ Return(a.resp)
                    /\ UNCHANGED <<r, title, artist, gemini_data>>
               [] a.kind = "match" ->
                    /\ r' = a.r
                    /\ title' = a.title
                    /\ artist' = a.artist
                    /\ IF gemini_client
                         THEN /\ pc' = "gemini"
                              /\ UNCHANGED <<gemini_data, response, responses>>
                         ELSE /\ gemini_data' =
                                   get_song_info_from_gemini(gemini_client, NoOutcome)
                              /\ Return(Finish(Assemble(a.r, a.title, a.artist,
                                                        gemini_data')))
  /\ UNCHANGED <<hasFile, gemini_client, geminiOutcome, geminiCalls>>

(* generate_content is called again after an API error *)
RecognizeCallGemini_Retry ==
  /\ pc = "gemini"
  /\ geminiCalls < 2
  /\ \E g \in GeminiOutcomes :
       /\ geminiOutcome' = g
       /\ geminiCalls' = geminiCalls + 1
       /\ gemini_data' = get_song_info_from_gemini(gemini_client, g)
       /\ IF g.kind = "APIError" /\ geminiCalls = 0
            THEN UNCHANGED <<pc, response, responses>>
            ELSE Return(Finish(Assemble(r, title, artist, gemini_data')))
  /\ UNCHANGED <<hasFile, gemini_client, auddOutcome, r, title, artist, auddCalls>>

(* generate_content and everything after it *)
RecognizeCallGemini ==
  /\ pc = "gemini"
  /\ \E g \in GeminiOutcomes :
       /\ geminiOutcome' = g
       /\ geminiCalls' = geminiCalls + 1
       /\ gemini_data' = get_song_info_from_gemini(gemini_client, g)
       /\ Return(Finish(Assemble(r, title, artist, gemini_data')))
  /\ UNCHANGED <<hasFile, gemini_client, auddOutcome, r, title, artist, auddCalls>>

Next == RecognizeCheckFile \/ RecognizePostAudd \/ RecognizeCallGemini

Spec == Init /\ [][Next]_vars

(* the handler runs to its return once the request is in *)
FairSpec == Spec /\ WF_vars(Next)

----------------------------------------------------------------------------
(* Vocabulary of the properties, in terms of what the services answered *)

ReplyIsObject(o) == o.kind = "json" /\ IsObj(o.body)

StatusIsError(o) ==
  /\ ReplyIsObject(o)
  /\ STATUS \in DOMAIN o.body.o
  /\ o.body.o[STATUS] = JStr(<<"error">>)

FieldOf(obj, k) == IF k \in DOMAIN obj.o THEN obj.o[k] ELSE ABSENT

ResultOf(o) == FieldOf(o.body, RESULT)
ErrorOf(o) == FieldOf(o.body, ERROR)

ResultEmpty(o) == ResultOf(o) \in {ABSENT, JNull, EmptyDict}

(* a match: status is not error and the result is not empty *)
IsMatchReply(o) == ReplyIsObject(o) /\ ~StatusIsError(o) /\ ~ResultEmpty(o)

PlatformTable ==
  { [field |-> SPOTIFY, name |-> <<"Spotify">>, record |-> SpotifyRecord,
     url |-> SpotifyRecord.o[EXTERNAL_URLS].o[SPOTIFY]],
    [field |-> YOUTUBE, name |-> <<"YouTube Music">>, record |-> YoutubeRecord,
     url |-> YoutubeRecord.o[URL]],
    [field |-> APPLE_MUSIC, name |-> <<"Apple Music">>, record |-> AppleMusicRecord,
     url |-> AppleMusicRecord.o[URL]],
    [field |-> DEEZER, name |-> <<"Deezer">>, record |-> DeezerRecord,
     url |-> DeezerRecord.o[LINK]] }

(* a field that is absent, null or the empty object *)
IsEmpty(v) == v \in {ABSENT, JNull, EmptyDict}

(* a match whose result is an object and whose platform fields, where      *)
(* present and not empty, carry their URL                                  *)
WellFormedMatch(o) ==
  /\ IsMatchReply(o)
  /\ IsObj(ResultOf(o))
  /\ \A p \in PlatformTable :
       IsEmpty(FieldOf(ResultOf(o), p.field))
       \/ FieldOf(ResultOf(o), p.field) = p.record

StatusOf(resp) == resp.body[STATUS]
MessageOf(resp) == resp.body[MESSAGE]

SuccessShape(resp) ==
  /\ resp.http = 200
  /\ DOMAIN resp.body = {STATUS, TITLE, ARTIST, ALBUM, LINKS, LYRICS, ARTIST_INFO}
  /\ StatusOf(resp) = JStr(<<"success">>)

FailShape(resp) ==
  /\ resp.http = 200
  /\ DOMAIN resp.body = {STATUS, MESSAGE}
  /\ StatusOf(resp) = JStr(<<"fail">>)
  /\ MessageOf(resp).t = "str"

ErrorShape(resp) ==
  /\ resp.http = 500
  /\ DOMAIN resp.body = {STATUS, MESSAGE}
  /\ StatusOf(resp) = JStr(<<"error">>)
  /\ MessageOf(resp).t = "str"

FullWrapped == UNION { Wrappings(b) : b \in FullObjectTexts }
LyricsOnlyText == <<"{">> \o Q(LYRICS) \o <<":">> \o Q(<<"L">>) \o <<"}">>

(* the text-generation step did not deliver an object with both keys *)
EnrichmentFailed(g) ==
  \/ g.kind \in {"APIError", "ConnectionError"}
  \/ g.kind = "text" /\ (g.text.t # "str" \/ g.text.s \notin FullWrapped)

SuppliesLyrics(g) ==
  g.kind = "text" /\ g.text.t = "str" /\ g.text.s \in Wrappings(LyricsOnlyText)

FixedPlaceholders ==
  {MSG_NOT_STARTED, MSG_API_FAILED, MSG_BAD_FORMAT, MSG_UNKNOWN, MSG_NO_LYRICS,
   MSG_NO_ARTIST_INFO}

(* a non-empty string that starts with one of the fixed placeholder texts *)
IsPlaceholder(v) ==
  /\ v.t = "str"
  /\ \E ph \in FixedPlaceholders :
       Len(v.s) >= Len(ph) /\ SubSeq(v.s, 1, Len(ph)) = ph

----------------------------------------------------------------------------
(* C1: after a well-formed match, whatever goes wrong in the               *)
(* text-generation step (API error, any other exception, missing text,     *)
(* unparsable text, JSON that is not an object, object lacking a key), the *)
(* request ends with HTTP 200, status=success, and lyrics and artist_info  *)
(* are fixed non-empty placeholders (a key the reply did supply keeps its  *)
(* value).                                                                 *)
C1_EnrichmentNeverEscalates ==
  (pc = "done" /\ gemini_client /\ WellFormedMatch(auddOutcome)
     /\ EnrichmentFailed(geminiOutcome))
  => /\ response.http = 200
     /\ StatusOf(response) = JStr(<<"success">>)
     /\ SuppliesLyrics(geminiOutcome) \/ IsPlaceholder(response.body[LYRICS])
     /\ IsPlaceholder(response.body[ARTIST_INFO])

(* C2: a request without the audio_file field gets HTTP 400, status=error  *)
(* and a message, and neither service is called.                           *)
C2_MissingFile ==
  /\ ~hasFile => auddCalls = 0 /\ geminiCalls = 0
  /\ (pc = "done" /\ ~hasFile)
     => /\ response.http = 400
        /\ DOMAIN response.body = {STATUS, MESSAGE}
        /\ StatusOf(response) = JStr(<<"error">>)
        /\ MessageOf(response).t = "str" /\ Len(MessageOf(response).s) > 0

C2_Witness == pc = "done" /\ ~hasFile /\ responses = 1 /\ response.http = 400

(* the error code the message must show: the reply's, or the N/A marker *)
UpstreamCode(o) ==
  IF IsObj(ErrorOf(o)) /\ ERROR_CODE \in DOMAIN ErrorOf(o).o
    THEN Format(ErrorOf(o).o[ERROR_CODE]) ELSE <<"N/A">>

ServiceErrorReported(o, resp) ==
  /\ FailShape(resp)
  /\ Contains(MessageOf(resp).s, UpstreamCode(o))
  /\ (IsObj(ErrorOf(o)) /\ ERROR_MESSAGE \in DOMAIN ErrorOf(o).o)
     => Contains(MessageOf(resp).s, ErrorOf(o).o[ERROR_MESSAGE].s)

(* C3 as stated: every reply whose status is error, whatever its other     *)
(* fields are, gets HTTP 200, status=fail and a message with the upstream  *)
(* code (or N/A) and the upstream message, and nothing else.               *)
C3_ServiceErrorAnyFields ==
  (pc = "done" /\ StatusIsError(auddOutcome))
  => ServiceErrorReported(auddOutcome, response)

(* C3 amended: every reply whose status is error and whose error field is  *)
(* absent or a JSON object, whatever its result field is, gets HTTP 200,   *)
(* status=fail and a message with the upstream code (or N/A) and the       *)
(* upstream message, and nothing else.                                     *)
C3_ServiceError ==
  (pc = "done" /\ StatusIsError(auddOutcome)
     /\ (ErrorOf(auddOutcome) = ABSENT \/ IsObj(ErrorOf(auddOutcome))))
  => ServiceErrorReported(auddOutcome, response)

C3_Witness ==
  /\ pc = "done"
  /\ StatusIsError(auddOutcome)
  /\ ResultOf(auddOutcome) = FullRecord
  /\ IsObj(ErrorOf(auddOutcome))
  /\ DOMAIN ErrorOf(auddOutcome).o = {ERROR_CODE, ERROR_MESSAGE}
  /\ StatusOf(response) = JStr(<<"fail">>)

(* C4: every object reply whose status is not error and whose result is    *)
(* absent, null or the empty object gets HTTP 200, status=fail and the one *)
(* fixed no-match message.                                                 *)
C4_NoMatch ==
  (pc = "done" /\ ReplyIsObject(auddOutcome) /\ ~StatusIsError(auddOutcome)
     /\ ResultEmpty(auddOutcome))
  => /\ FailShape(response)
     /\ MessageOf(response) = JStr(MSG_NO_MATCH)

C4_Witness ==
  /\ pc = "done"
  /\ ReplyIsObject(auddOutcome)
  /\ FieldOf(auddOutcome.body, STATUS) = JStr(<<"success">>)
  /\ ResultOf(auddOutcome) = EmptyDict
  /\ response.http = 200

LinksOf(resp) == resp.body[LINKS].o

C6_TransportError ==
  /\ auddOutcome.kind = "HTTPError" => geminiCalls = 0 /\ pc = "done"
  /\ (pc = "done" /\ auddOutcome.kind = "HTTPError")
     => /\ ErrorShape(response)
        /\ Contains(MessageOf(response).s, Digits(auddOutcome.status_code))

C6_Witness ==
  /\ pc = "done"
  /\ auddOutcome.kind = "HTTPError"
  /\ auddOutcome.status_code = 503
  /\ response.http = 500

(* C7: when the reply text is a JSON object with lyrics and artist_info,   *)
(* bare or between a FENCE / FENCE_JSON opening and a closing FENCE, with  *)
(* blanks around, get_song_info_from_gemini returns exactly those values.  *)
C7_FenceStripped ==
  \A p \in EnrichmentPairs :
    (geminiOutcome.kind = "text" /\ geminiOutcome.text.t = "str"
       /\ geminiOutcome.text.s \in Wrappings(ObjText(p[1], p[2])))
    => gemini_data = Ok(EnrichmentDict(p[1], p[2]))

C7_Witness ==
  /\ pc = "done"
  /\ geminiOutcome.kind = "text"
  /\ geminiOutcome.text.t = "str"
  /\ geminiOutcome.text.s =
       <<" ">> \o FENCE_JSON \o <<NL>> \o ObjText(<<BT, "j", "s", "o", "n">>, <<"n", "o", BT>>)
       \o <<NL>> \o FENCE \o <<" ">>
  /\ gemini_data.val.o[LYRICS] = JStr(<<BT, "j", "s", "o", "n">>)

NotStartedSuccess(o, resp) ==
  /\ SuccessShape(resp)
  /\ resp.body[LYRICS] = JStr(MSG_NOT_STARTED)
  /\ resp.body[ARTIST_INFO] = JStr(MSG_NOT_STARTED)
  /\ \A k \in {TITLE, ARTIST, ALBUM} :
       resp.body[k] = (IF FieldOf(ResultOf(o), k) = ABSENT THEN JNull
                       ELSE FieldOf(ResultOf(o), k))
  /\ \A p \in PlatformTable :
       FieldOf(ResultOf(o), p.field) = p.record
       => p.name \in DOMAIN LinksOf(resp) /\ LinksOf(resp)[p.name] = p.url

(* C8 as stated: with no text-generation client, every match (status not   *)
(* error, result not empty) makes no text-generation call and gets HTTP    *)
(* 200, status=success with the service-not-started placeholder in lyrics  *)
(* and artist_info and the title, artist, album and links of the match.    *)
C8_NoClientAnyMatch ==
  /\ ~gemini_client => geminiCalls = 0
  /\ (pc = "done" /\ ~gemini_client /\ IsMatchReply(auddOutcome)
        /\ IsObj(ResultOf(auddOutcome)))
     => NotStartedSuccess(auddOutcome, response)
  /\ (pc = "done" /\ ~gemini_client /\ IsMatchReply(auddOutcome))
     => response.http = 200

(* C8 amended: with no text-generation client, every match whose result is *)
(* a well-formed record (an object whose platform fields, where present    *)
(* and not empty, carry their URL) makes no text-generation call and gets  *)
(* HTTP 200, status=success with the service-not-started placeholder in    *)
(* lyrics and artist_info and the title, artist, album and links of the    *)
(* match.                                                                  *)
C8_NoClient ==
  /\ ~gemini_client => geminiCalls = 0
  /\ (pc = "done" /\ ~gemini_client /\ WellFormedMatch(auddOutcome))
     => NotStartedSuccess(auddOutcome, response)

C8_Witness ==
  /\ pc = "done"
  /\ ~gemini_client
  /\ ReplyIsObject(auddOutcome)
  /\ ResultOf(auddOutcome) = FullRecord
  /\ ~StatusIsError(auddOutcome)
  /\ response.http = 200
  /\ geminiCalls = 0

(* C9: in one request each service is called at most once, the             *)
(* text-generation call comes only after the fingerprinting call returned  *)
(* a match, and the missing-file, transport-error, service-error and       *)
(* no-match paths never call the text-generation service.                  *)
C9_CallsOnceInOrder ==
  /\ auddCalls <= 1
  /\ geminiCalls <= 1
  /\ (geminiCalls = 1 \/ pc = "gemini")
     => auddCalls = 1 /\ IsMatchReply(auddOutcome)
  /\ ( \/ ~hasFile
       \/ auddOutcome.kind \in {"HTTPError", "ConnectionError", "JSONDecodeError"}
       \/ StatusIsError(auddOutcome)
       \/ ReplyIsObject(auddOutcome) /\ ResultEmpty(auddOutcome) )
     => geminiCalls = 0 /\ pc # "gemini"
  /\ (pc = "done" /\ hasFile) => auddCalls = 1

C9_Witness ==
  /\ pc = "done"
  /\ auddCalls = 1
  /\ geminiCalls = 1
  /\ geminiOutcome.kind = "APIError"

(* an exception that is not an HTTP error is raised once the fingerprinting *)
(* call has started: the call itself fails, the body is undecodable, the   *)
(* reply has an unexpected shape, or a platform record is malformed        *)
RaisesOther(o) ==
  \/ o.kind \in {"ConnectionError", "JSONDecodeError"}
  \/ o.kind = "json" /\ ~IsObj(o.body)
  \/ StatusIsError(o) /\ ErrorOf(o) # ABSENT /\ ~IsObj(ErrorOf(o))
  \/ IsMatchReply(o) /\ ~WellFormedMatch(o)

C10_Shape ==
  /\ responses <= 1
  /\ pc = "done" <=> responses = 1
  /\ (pc = "done" /\ hasFile)
     => SuccessShape(response) \/ FailShape(response) \/ ErrorShape(response)
  /\ (pc = "done" /\ RaisesOther(auddOutcome))
     => /\ ErrorShape(response)
        /\ Len(MessageOf(response).s) > 1
        /\ auddOutcome.kind \in {"ConnectionError", "JSONDecodeError"}
           => Contains(MessageOf(response).s, auddOutcome.msg)

(* C10: every request with an audio_file ends with exactly one response,   *)
(* which is a success (200, the six data fields, no message), a fail (200, *)
(* message only) or an error (500, message only); an exception other than  *)
(* an HTTP error raised after the fingerprinting call started is reported  *)
(* as HTTP 500, status=error with the exception's message.                 *)
C10_OneResponse == []C10_Shape /\ <>(pc = "done")

C10_Witness ==
  /\ pc = "done"
  /\ hasFile
  /\ geminiCalls = 1
  /\ IsMatchReply(auddOutcome) /\ ~WellFormedMatch(auddOutcome)
  /\ response.http = 500

====
